---- MODULE Spec2Model ----
(***************************************************************************)
(* A model of src/lib/libkern.c: the cached kernel task port               *)
(* (get_kernel_task), the kernel base locator (get_kernel_base) and the    *)
(* chunked transfers (read_kernel, write_kernel).  Every function is a     *)
(* sequence of steps of a thread; pc[t] is the thread's call stack, its    *)
(* head the statement to run next.  The Mach calls the module makes        *)
(* (task_for_pid, host_get_special_port, vm_region_recurse_64,             *)
(* vm_read_overwrite, vm_write) answer nondeterministically.               *)
(***************************************************************************)
EXTENDS Integers, Sequences, FiniteSets, TLC

\* ------------------------------------------------------------ constants
KERN_SUCCESS == 0
KERN_INVALID_ARGUMENT == 4
KERN_FAILURE == 5
MACH_PORT_NULL == 0
\* (mach_port_name_t) ~0, read as a signed number
MACH_PORT_DEAD == -1

\* The port names a Mach call can store: the two invalid names and two
\* names of rights.
ValidPorts == {259, 515}
Ports == {MACH_PORT_NULL, MACH_PORT_DEAD} \cup ValidPorts
\* The status codes a Mach call can return.
Statuses == {KERN_SUCCESS, KERN_INVALID_ARGUMENT, KERN_FAILURE}

Threads == {1, 2}

\* get_kernel_base counts addresses and sizes in units of 0x1000 bytes: region
\* bounds, IMAGE_OFFSET and the 0x100000 stride are all multiples of it.
\* vm_address_t is PageBits + 12 bits wide.
PageBits == 20
PageMod == 2 ^ PageBits
\* line 139: 0x1000 on 32 bit
IMAGE_OFFSET == 1
\* line 210: 0x100000
STRIDE == 256
\* line 135: 1024*1024*1024
GiB == 262144
\* The hole vm_region_recurse_64 may skip before the region it reports.
RegionGap == 16
\* The target has at most MaxRegions regions, and at most MaxStrides
\* consecutive stride steps read two headers without a usable magic.
MaxRegions == 3
MaxStrides == 2

\* read_kernel and write_kernel count bytes; there vm_address_t and vm_size_t
\* are AddrBits bits wide.
AddrBits == 14
AddrMod == 2 ^ AddrBits
\* line 29: 0xFFF
MAX_CHUNK_SIZE == 4095
\* At most MaxShort chunks of a read come back shorter than requested.
MaxShort == 1
\* The addresses and sizes callers pass to read_kernel and write_kernel.
XferAddrs == {0, MAX_CHUNK_SIZE, AddrMod - 1}
XferSizes == {0, 1, MAX_CHUNK_SIZE, MAX_CHUNK_SIZE + 1, 2 * MAX_CHUNK_SIZE + 1, AddrMod - 1}

\* The contents of the target's memory are followed for its first WindowLen
\* bytes; a byte is 0 or 1.
WindowLen == 3
Window == 0..(WindowLen - 1)
Bytes == {0, 1}
\* The byte sequences written and searched for have one or two bytes.
PatternLengths == {1, 2}
Patterns == UNION {[1..n -> Bytes] : n \in PatternLengths}
\* The ranges searched begin at one of SearchStarts and end at one of
\* SearchEnds.
SearchStarts == {0, 1}
SearchEnds == {WindowLen - 1, WindowLen}

RegionSizes == {GiB, GiB + 1}
\* info.protection, as the set of VM_PROT_ bits that are set
Protections == {{}, {"VM_PROT_READ"}, {"VM_PROT_EXECUTE"}}
\* A mach_hdr_t, each field as whether it equals the constant the code
\* compares it with: MACH_HEADER_MAGIC, MACH_TYPE, MH_EXECUTE.
Headers ==
    {[magic |-> FALSE, cputype |-> FALSE, filetype |-> FALSE],
     [magic |-> TRUE, cputype |-> TRUE, filetype |-> TRUE],
     [magic |-> TRUE, cputype |-> TRUE, filetype |-> FALSE],
     [magic |-> TRUE, cputype |-> FALSE, filetype |-> TRUE]}
NoHeader == [magic |-> FALSE, cputype |-> FALSE, filetype |-> FALSE]

VARIABLES
    kernel_task,        \* get_kernel_task: static task_t kernel_task
    task_initialized,   \* get_kernel_task: static char initialized
    pc,                 \* per thread: the call stack of statement labels
    gkt,                \* per thread: the running/last get_kernel_task call
    succeeded,          \* history: some get_kernel_task call returned KERN_SUCCESS
    firstPort,          \* history: the port that call stored in *task
    base_addr,          \* get_kernel_base: static vm_address_t addr
    base_initialized,   \* get_kernel_base: static char initialized
    gkb,                \* per thread: the running/last get_kernel_base call
    located,            \* history: some get_kernel_base call cached an address
    firstBase,          \* history: the address that call returned
    locatedBy,          \* history: that call's region, strides and last header reads
    xf,                 \* per thread: the running/last read_kernel or write_kernel call
    kmem,               \* the target's memory: the byte at each address of Window
    fbk                 \* per thread: the running/last find_bytes_kern call

taskVars == <<kernel_task, task_initialized, succeeded, firstPort>>
baseVars == <<base_addr, base_initialized, gkb, located, firstBase, locatedBy>>
findVars == <<kmem, fbk>>
vars == <<kernel_task, task_initialized, pc, gkt, succeeded, firstPort,
          base_addr, base_initialized, gkb, located, firstBase, locatedBy, xf,
          kmem, fbk>>

\* ------------------------------------------------------------ helpers
MACH_PORT_VALID(port) == port /= MACH_PORT_NULL /\ port /= MACH_PORT_DEAD

\* VERIFY_PORT as it would be if the status were trusted over the port.
VERIFY_PORT_TrustStatus(port, ret) == ret

\* VERIFY_PORT as it would be if a success status were never taken back.
VERIFY_PORT_KeepsSuccess(port, ret) ==
    IF MACH_PORT_VALID(port) \/ ret = KERN_SUCCESS THEN KERN_SUCCESS ELSE ret

\* VERIFY_PORT(port, ret): the value the macro leaves in ret.
VERIFY_PORT(port, ret) ==
    IF MACH_PORT_VALID(port)
    THEN KERN_SUCCESS
    ELSE IF ret = KERN_SUCCESS THEN KERN_FAILURE ELSE ret

At(t, label) == Head(pc[t]) = label
Goto(t, label) == pc' = [pc EXCEPT ![t] = <<label>> \o Tail(@)]
Call(t, entry, cont) == pc' = [pc EXCEPT ![t] = <<entry, cont>> \o Tail(@)]
Return(t) == pc' = [pc EXCEPT ![t] = Tail(@)]

\* The locals of a get_kernel_task call before its first statement.  The rest
\* is history of the call: calls (the Mach calls it made), primary (what
\* task_for_pid answered), verdicts (each VERIFY_PORT it ran), acquired (the
\* port a successful VERIFY_PORT saw), cached (it took the cached path), after
\* (an earlier call had returned KERN_SUCCESS when it began) and retry (the
\* thread's previous call returned a failure).
GktFresh(after, retry) ==
    [done |-> FALSE, ret |-> KERN_SUCCESS, wrote |-> FALSE, out |-> MACH_PORT_NULL,
     calls |-> <<>>, primary |-> <<>>, acquired |-> <<>>, verdicts |-> <<>>,
     cached |-> FALSE, after |-> after, retry |-> retry]

\* What is left of a get_kernel_task call once its caller has taken the
\* result: whether it ran and what it returned.
GktGone(g) == [GktFresh(FALSE, FALSE) EXCEPT !.done = g.done, !.ret = g.ret]

\* The locals of a get_kernel_base call before its first statement.  The rest
\* is history of the call: called (it called get_kernel_task,
\* vm_region_recurse_64 or vm_read_overwrite), after (an earlier call had
\* cached an address when it began), cached (it took the cached path), scan
\* (the regions vm_region_recurse_64 reported), region (the start of the
\* region that matched), strides (the stride steps taken in it) and probe
\* (the header reads of the current step: where each read was made, whether
\* it succeeded, and what it left in hdr1, hdr2) and prev (the two magic
\* verdicts of the step before, which went 0x100000 further).
GkbFresh(after) ==
    [done |-> FALSE, result |-> 0, ret |-> KERN_SUCCESS, kernel_task |-> MACH_PORT_NULL,
     size |-> 0,
     called |-> FALSE, after |-> after, cached |-> FALSE,
     scan |-> <<>>, region |-> <<>>, strides |-> 0, probe |-> <<>>,
     prev |-> <<>>]

\* The locals of a read_kernel or write_kernel call (op says which) on
\* entry, lines 232-233 and 263-264; moved is bytes_read or bytes_written
\* and data the bytes a write_kernel call is given.
\* The rest is history of the call: addr0 and size0 (the arguments),
\* acquired (get_kernel_task gave it the port) and log (the
\* vm_read_overwrite or vm_write calls it made: address, size requested,
\* offset into the caller's buffer, status, bytes moved).
XferFresh(op, addr, size) ==
    [op |-> op, done |-> FALSE, result |-> 0, ret |-> KERN_SUCCESS,
     kernel_task |-> MACH_PORT_NULL, addr |-> addr, size |-> size, remainder |-> size,
     moved |-> 0, end |-> 0,
     addr0 |-> addr, size0 |-> size, acquired |-> FALSE, short |-> 0, log |-> <<>>,
     data |-> <<>>]

\* The locals of a find_bytes_kern call on entry, lines 287-290; buf says
\* whether malloc gave a buffer.  after is history: the write_kernel call
\* that the thread completed in full just before, if it did.
FbkFresh(start, end, bytes, after) ==
    [done |-> FALSE, ret |-> 0, start |-> start, end |-> end, bytes |-> bytes,
     buf |-> FALSE, after |-> after]

Init ==
    /\ xf = [t \in Threads |-> XferFresh("none", 0, 0)]
    /\ kmem = [a \in Window |-> 0]
    /\ fbk = [t \in Threads |-> FbkFresh(0, 0, <<>>, <<>>)]
    /\ base_addr = 0
    /\ base_initialized = 0
    /\ gkb = [t \in Threads |-> GkbFresh(FALSE)]
    /\ located = FALSE
    /\ firstBase = 0
    /\ locatedBy = [region |-> <<>>, strides |-> 0, probe |-> <<>>]
    /\ kernel_task = MACH_PORT_NULL
    /\ task_initialized = 0
    /\ pc = [t \in Threads |-> <<"idle">>]
    /\ gkt = [t \in Threads |-> GktFresh(FALSE, FALSE)]
    /\ succeeded = FALSE
    /\ firstPort = MACH_PORT_NULL

\* ------------------------------------------------------------ get_kernel_task
\* line 60: a call begins with fresh locals.
GktEnter(t) ==
    gkt' = [gkt EXCEPT ![t] = GktFresh(succeeded,
                                       gkt[t].done /\ gkt[t].ret /= KERN_SUCCESS)]

\* line 65: if(initialized)
GktTestInitialized(t) ==
    /\ At(t, "gkt_65")
    /\ IF task_initialized /= 0
       THEN /\ Goto(t, "gkt_92")
            /\ gkt' = [gkt EXCEPT ![t].cached = TRUE]
       ELSE /\ Goto(t, "gkt_72")
            /\ UNCHANGED gkt
    /\ UNCHANGED <<kernel_task, task_initialized, succeeded, firstPort>>
    /\ UNCHANGED <<baseVars, xf, findVars>>

\* line 72: kernel_task = MACH_PORT_NULL;
GktResetPrimary(t) ==
    /\ At(t, "gkt_72")
    /\ kernel_task' = MACH_PORT_NULL
    /\ Goto(t, "gkt_73")
    /\ UNCHANGED <<task_initialized, gkt, succeeded, firstPort>>
    /\ UNCHANGED <<baseVars, xf, findVars>>

\* line 73: ret = task_for_pid(mach_task_self(), 0, &kernel_task); the
\* kernel answers with one of the given ports and statuses.
TaskForPid(t, ports, statuses) ==
    /\ At(t, "gkt_73")
    /\ \E port \in ports, status \in statuses :
        /\ kernel_task' = port
        /\ gkt' = [gkt EXCEPT ![t].ret = status,
                              ![t].calls = Append(@, "task_for_pid(0)"),
                              ![t].primary = <<[port |-> port, ret |-> status]>>]
    /\ Goto(t, "gkt_74")
    /\ UNCHANGED <<task_initialized, succeeded, firstPort>>
    /\ UNCHANGED <<baseVars, xf, findVars>>

\* line 73, whatever the kernel answers
GktTaskForPid(t) == TaskForPid(t, Ports, Statuses)

\* Lines 74-75 as they would be if line 75 tested the status task_for_pid
\* returned instead of the reconciled one.
GktVerifyPrimary_RawStatus(t) ==
    /\ At(t, "gkt_74")
    /\ LET ret == VERIFY_PORT(kernel_task, gkt[t].ret) IN
        /\ gkt' = [gkt EXCEPT ![t].ret = ret,
                              ![t].acquired = IF ret = KERN_SUCCESS THEN <<kernel_task>> ELSE @,
                              ![t].verdicts = Append(@, [port |-> kernel_task,
                                                         status |-> gkt[t].ret,
                                                         ret |-> ret])]
        /\ IF gkt[t].ret /= KERN_SUCCESS THEN Goto(t, "gkt_79") ELSE Goto(t, "gkt_83")
    /\ UNCHANGED <<kernel_task, task_initialized, succeeded, firstPort>>
    /\ UNCHANGED <<baseVars, xf, findVars>>

\* lines 74-75: VERIFY_PORT(kernel_task, ret); if(ret != KERN_SUCCESS)
GktVerifyPrimary(t) ==
    /\ At(t, "gkt_74")
    /\ LET ret == VERIFY_PORT(kernel_task, gkt[t].ret) IN
        /\ gkt' = [gkt EXCEPT ![t].ret = ret,
                              ![t].acquired = IF ret = KERN_SUCCESS THEN <<kernel_task>> ELSE @,
                              ![t].verdicts = Append(@, [port |-> kernel_task,
                                                         status |-> gkt[t].ret,
                                                         ret |-> ret])]
        /\ IF ret /= KERN_SUCCESS THEN Goto(t, "gkt_79") ELSE Goto(t, "gkt_83")
    /\ UNCHANGED <<kernel_task, task_initialized, succeeded, firstPort>>
    /\ UNCHANGED <<baseVars, xf, findVars>>

\* line 79: kernel_task = MACH_PORT_NULL;
GktResetFallback(t) ==
    /\ At(t, "gkt_79")
    /\ kernel_task' = MACH_PORT_NULL
    /\ Goto(t, "gkt_80")
    /\ UNCHANGED <<task_initialized, gkt, succeeded, firstPort>>
    /\ UNCHANGED <<baseVars, xf, findVars>>

\* line 80: ret = host_get_special_port(mach_host_self(), HOST_LOCAL_NODE, 4, &kernel_task);
HostGetSpecialPort(t, ports, statuses) ==
    /\ At(t, "gkt_80")
    /\ \E port \in ports, status \in statuses :
        /\ kernel_task' = port
        /\ gkt' = [gkt EXCEPT ![t].ret = status,
                              ![t].calls = Append(@, "host_get_special_port(4)")]
    /\ Goto(t, "gkt_81")
    /\ UNCHANGED <<task_initialized, succeeded, firstPort>>
    /\ UNCHANGED <<baseVars, xf, findVars>>

\* line 80, whatever the kernel answers
GktHostGetSpecialPort(t) == HostGetSpecialPort(t, Ports, Statuses)

\* line 81: VERIFY_PORT(kernel_task, ret);
GktVerifyFallback(t) ==
    /\ At(t, "gkt_81")
    /\ LET ret == VERIFY_PORT(kernel_task, gkt[t].ret) IN
        gkt' = [gkt EXCEPT ![t].ret = ret,
                           ![t].acquired = IF ret = KERN_SUCCESS THEN <<kernel_task>> ELSE @,
                           ![t].verdicts = Append(@, [port |-> kernel_task,
                                                      status |-> gkt[t].ret,
                                                      ret |-> ret])]
    /\ Goto(t, "gkt_83")
    /\ UNCHANGED <<kernel_task, task_initialized, succeeded, firstPort>>
    /\ UNCHANGED <<baseVars, xf, findVars>>

\* Lines 83-87 as they would be if line 89 came before the test.
GktTestFailure_CachesFirst(t) ==
    /\ At(t, "gkt_83")
    /\ task_initialized' = 1
    /\ IF gkt[t].ret /= KERN_SUCCESS
       THEN /\ gkt' = [gkt EXCEPT ![t].done = TRUE]
            /\ Return(t)
       ELSE /\ Goto(t, "gkt_89")
            /\ UNCHANGED gkt
    /\ UNCHANGED <<kernel_task, succeeded, firstPort>>
    /\ UNCHANGED <<baseVars, xf, findVars>>

\* lines 83-87: if(ret != KERN_SUCCESS) return ret;
GktTestFailure(t) ==
    /\ At(t, "gkt_83")
    /\ IF gkt[t].ret /= KERN_SUCCESS
       THEN /\ gkt' = [gkt EXCEPT ![t].done = TRUE]
            /\ Return(t)
       ELSE /\ Goto(t, "gkt_89")
            /\ UNCHANGED gkt
    /\ UNCHANGED <<kernel_task, task_initialized, succeeded, firstPort>>
    /\ UNCHANGED <<baseVars, xf, findVars>>

\* Line 89 as it would be if the flag were never set.
GktSetInitialized_Forgets(t) ==
    /\ At(t, "gkt_89")
    /\ Goto(t, "gkt_92")
    /\ UNCHANGED <<kernel_task, task_initialized, gkt, succeeded, firstPort>>
    /\ UNCHANGED <<baseVars, xf, findVars>>

\* line 89: initialized = 1;
GktSetInitialized(t) ==
    /\ At(t, "gkt_89")
    /\ task_initialized' = 1
    /\ Goto(t, "gkt_92")
    /\ UNCHANGED <<kernel_task, gkt, succeeded, firstPort>>
    /\ UNCHANGED <<baseVars, xf, findVars>>

\* lines 92-93: *task = kernel_task; return KERN_SUCCESS;
GktReturnSuccess(t) ==
    /\ At(t, "gkt_92")
    /\ gkt' = [gkt EXCEPT ![t].done = TRUE, ![t].ret = KERN_SUCCESS,
                          ![t].wrote = TRUE, ![t].out = kernel_task]
    /\ succeeded' = TRUE
    /\ firstPort' = IF succeeded THEN firstPort ELSE kernel_task
    /\ Return(t)
    /\ UNCHANGED <<kernel_task, task_initialized>>
    /\ UNCHANGED <<baseVars, xf, findVars>>

get_kernel_task(t) ==
    \/ GktTestInitialized(t)
    \/ GktResetPrimary(t)
    \/ GktTaskForPid(t)
    \/ GktVerifyPrimary(t)
    \/ GktResetFallback(t)
    \/ GktHostGetSpecialPort(t)
    \/ GktVerifyFallback(t)
    \/ GktTestFailure(t)
    \/ GktSetInitialized(t)
    \/ GktReturnSuccess(t)

\* The answers of the kernel while threads race: a port or none, success
\* or failure.
RacePorts == {MACH_PORT_NULL, 259}
RaceStatuses == {KERN_SUCCESS, KERN_FAILURE}

\* line 73 under RacePorts and RaceStatuses
GktTaskForPidRacing(t) == TaskForPid(t, RacePorts, RaceStatuses)

\* line 80 under RacePorts and RaceStatuses
GktHostGetSpecialPortRacing(t) == HostGetSpecialPort(t, RacePorts, RaceStatuses)

\* lines 60-94, statement by statement, under RacePorts and RaceStatuses
get_kernel_task_racing(t) ==
    \/ GktTestInitialized(t)
    \/ GktResetPrimary(t)
    \/ GktTaskForPidRacing(t)
    \/ GktVerifyPrimary(t)
    \/ GktResetFallback(t)
    \/ GktHostGetSpecialPortRacing(t)
    \/ GktVerifyFallback(t)
    \/ GktTestFailure(t)
    \/ GktSetInitialized(t)
    \/ GktReturnSuccess(t)

\* A caller of the library calls get_kernel_task(&task).  The locals of the
\* calls that returned before are gone.
CallGetKernelTask(t) ==
    /\ At(t, "idle")
    /\ Call(t, "gkt_65", "idle")
    /\ GktEnter(t)
    /\ gkb' = [gkb EXCEPT ![t] = GkbFresh(FALSE)]
    /\ xf' = [xf EXCEPT ![t] = XferFresh("none", 0, 0)]
    /\ UNCHANGED <<kernel_task, task_initialized, succeeded, firstPort>>
    /\ UNCHANGED <<base_addr, base_initialized, located, firstBase, locatedBy>>
    /\ UNCHANGED findVars

\* ------------------------------------------------------------ get_kernel_base
\* What one vm_read_overwrite of sizeof(mach_hdr_t) bytes can answer.
HeaderReads ==
    {[ok |-> FALSE, hdr |-> NoHeader]} \cup {[ok |-> TRUE, hdr |-> h] : h \in Headers}

\* Lines 197-206 with the two offsets exchanged.
DisambiguateHeaders_Exchanged(hdr1, hdr2) ==
    LET m1 == hdr1.magic
        m2 == hdr2.magic
        t1 == hdr1.cputype /\ hdr1.filetype
        t2 == hdr2.cputype /\ hdr2.filetype
        b1 == IF m1 /\ m2 THEN t1 ELSE m1
        b2 == IF m1 /\ m2 THEN t2 ELSE m2
    IN  IF m1 /\ m2 /\ t1 /\ t2 THEN "both"
        ELSE IF b1 THEN "second"
        ELSE IF b2 THEN "first"
        ELSE "neither"

\* Lines 187-194 going with the first header instead of returning 0.
DisambiguateHeaders_GuessFirst(hdr1, hdr2) ==
    LET m1 == hdr1.magic
        m2 == hdr2.magic
        t1 == hdr1.cputype /\ hdr1.filetype
        t2 == hdr2.cputype /\ hdr2.filetype
        b1 == IF m1 /\ m2 THEN t1 ELSE m1
        b2 == IF m1 /\ m2 THEN t2 ELSE m2
    IN  IF b1 THEN "first"
        ELSE IF b2 THEN "second"
        ELSE "neither"

\* Lines 180-186 left out: the magic alone decides.
DisambiguateHeaders_MagicOnly(hdr1, hdr2) ==
    LET b1 == hdr1.magic
        b2 == hdr2.magic
    IN  IF b1 THEN "first"
        ELSE IF b2 THEN "second"
        ELSE "neither"

\* lines 175-212: which header to go with when both were read: "first",
\* "second", "both" (return 0) or "neither" (go 0x100000 further).
DisambiguateHeaders(hdr1, hdr2) ==
    LET m1 == hdr1.magic
        m2 == hdr2.magic
        t1 == hdr1.cputype /\ hdr1.filetype
        t2 == hdr2.cputype /\ hdr2.filetype
        b1 == IF m1 /\ m2 THEN t1 ELSE m1
        b2 == IF m1 /\ m2 THEN t2 ELSE m2
    IN  IF m1 /\ m2 /\ t1 /\ t2 THEN "both"
        ELSE IF b1 THEN "first"
        ELSE IF b2 THEN "second"
        ELSE "neither"

\* Lines 160-170 without the test of hdr1.magic.
SecondUnreadable_NoTest(hdr1) == "first"

\* Lines 160-170 giving up whatever hdr1 holds.
SecondUnreadable_GiveUp(hdr1) == "zero"

\* lines 156-171: what to do when the second header cannot be read: go with
\* the "first" or return "zero".
SecondUnreadable(hdr1) == IF hdr1.magic THEN "first" ELSE "zero"

\* Line 210 with a zero dropped: 0x10000.
StrideFurther_Short(addr) == (addr + 16) % PageMod

\* line 210: addr += 0x100000;
StrideFurther(addr) == (addr + STRIDE) % PageMod

\* Line 135 without the test of the size.
RegionMatches_AnySize(size, protection) == protection = {}

\* line 135: size > 1024*1024*1024 && (protection & (R|W|X)) == 0
RegionMatches(size, protection) ==
    /\ size > GiB
    /\ protection \cap {"VM_PROT_READ", "VM_PROT_WRITE", "VM_PROT_EXECUTE"} = {}

\* A return of 0 from inside get_kernel_base (lines 117, 129, 151, 169, 193).
GkbReturnZero(t, locals) ==
    /\ gkb' = [gkb EXCEPT ![t] = [locals EXCEPT !.done = TRUE, !.result = 0]]
    /\ Return(t)

\* Lines 101-114 as they would be if the cached address were never used.
GkbTestInitialized_Always(t) ==
    /\ At(t, "gkb_101")
    /\ Call(t, "gkt_65", "gkb_115")
    /\ GktEnter(t)
    /\ gkb' = [gkb EXCEPT ![t].called = TRUE]
    /\ UNCHANGED <<base_addr, base_initialized, located, firstBase, locatedBy>>
    /\ UNCHANGED <<taskVars, xf, findVars>>

\* lines 101-114: if(initialized) ... else ret = get_kernel_task(&kernel_task);
GkbTestInitialized(t) ==
    /\ At(t, "gkb_101")
    /\ IF base_initialized /= 0
       THEN /\ Goto(t, "gkb_223")
            /\ gkb' = [gkb EXCEPT ![t].cached = TRUE]
            /\ UNCHANGED gkt
       ELSE /\ Call(t, "gkt_65", "gkb_115")
            /\ GktEnter(t)
            /\ gkb' = [gkb EXCEPT ![t].called = TRUE]
    /\ UNCHANGED <<base_addr, base_initialized, located, firstBase, locatedBy>>
    /\ UNCHANGED <<taskVars, xf, findVars>>

\* lines 115-121: if(ret != KERN_SUCCESS) return 0; for(addr = 0; ...
GkbAfterTask(t) ==
    /\ At(t, "gkb_115")
    /\ LET locals == [gkb[t] EXCEPT !.ret = gkt[t].ret,
                                    !.kernel_task = IF gkt[t].wrote THEN gkt[t].out ELSE @]
       IN  IF locals.ret /= KERN_SUCCESS
           THEN /\ GkbReturnZero(t, locals)
                /\ UNCHANGED base_addr
           ELSE /\ gkb' = [gkb EXCEPT ![t] = locals]
                /\ base_addr' = 0
                /\ Goto(t, "gkb_125")
    /\ gkt' = [gkt EXCEPT ![t] = GktGone(@)]
    /\ UNCHANGED <<base_initialized, located, firstBase, locatedBy>>
    /\ UNCHANGED <<taskVars, xf, findVars>>

\* lines 121-136: one turn of the region loop: vm_region_recurse_64 reports
\* the region at or after addr, or fails; a region that does not match is
\* skipped by addr += size.  The target has gaps, sizes and protections of
\* the given kinds.
NextRegion(t, gaps, sizes, protections) ==
    /\ At(t, "gkb_125")
    /\ \/ GkbReturnZero(t, [gkb[t] EXCEPT !.ret = KERN_FAILURE])
          /\ UNCHANGED base_addr
       \/ /\ Len(gkb[t].scan) < MaxRegions
          /\ \E gap \in gaps, size \in sizes, protection \in protections :
                LET start == base_addr + gap
                    locals == [gkb[t] EXCEPT
                                 !.ret = KERN_SUCCESS,
                                 !.size = size,
                                 !.scan = Append(@, [query |-> base_addr, start |-> start,
                                                     size |-> size, protection |-> protection])]
                IN  /\ start + size <= PageMod
                    /\ IF RegionMatches(size, protection)
                       THEN /\ base_addr' = start
                            /\ gkb' = [gkb EXCEPT ![t] = [locals EXCEPT !.region = <<start>>]]
                            /\ Goto(t, "gkb_147")
                       ELSE /\ base_addr' = (start + size) % PageMod
                            /\ gkb' = [gkb EXCEPT ![t] = locals]
                            /\ Goto(t, "gkb_125")
    /\ UNCHANGED <<base_initialized, located, firstBase, locatedBy, gkt>>
    /\ UNCHANGED <<taskVars, xf, findVars>>

\* lines 121-136, whatever the target's regions
GkbNextRegion(t) == NextRegion(t, {0, RegionGap}, RegionSizes, Protections)

\* lines 144-219: one turn of the while(true) loop: read the header at
\* addr + IMAGE_OFFSET and at addr + 2 * IMAGE_OFFSET and decide; reads are
\* the answers vm_read_overwrite can give.  The code puts no limit on the
\* turns; capped says whether the turns are limited to MaxStrides here, and
\* uncapped they are counted modulo the turns that bring addr back to where
\* it was.
ProbeHeaders(t, capped, reads) ==
    /\ At(t, "gkb_147")
    /\ \E r1 \in reads, r2 \in reads :
        LET at1 == (base_addr + IMAGE_OFFSET) % PageMod
            at2 == (base_addr + 2 * IMAGE_OFFSET) % PageMod
            p1 == [at |-> at1, ok |-> r1.ok, hdr |-> r1.hdr]
            p2 == [at |-> at2, ok |-> r2.ok, hdr |-> r2.hdr]
            accept(locals, addr) ==
                /\ base_addr' = addr
                /\ base_initialized' = 1
                /\ gkb' = [gkb EXCEPT ![t] = locals]
                /\ Goto(t, "gkb_223")
            zero(locals) ==
                /\ GkbReturnZero(t, locals)
                /\ UNCHANGED <<base_addr, base_initialized>>
        IN  IF ~r1.ok
            THEN /\ r2 = r1
                 /\ zero([gkb[t] EXCEPT !.ret = KERN_FAILURE, !.probe = <<p1>>])
            ELSE IF ~r2.ok
            THEN LET locals == [gkb[t] EXCEPT !.ret = KERN_FAILURE, !.probe = <<p1, p2>>]
                 IN  IF SecondUnreadable(r1.hdr) = "first"
                     THEN accept(locals, (base_addr + IMAGE_OFFSET) % PageMod)
                     ELSE zero(locals)
            ELSE LET locals == [gkb[t] EXCEPT !.ret = KERN_SUCCESS, !.probe = <<p1, p2>>]
                     which == DisambiguateHeaders(r1.hdr, r2.hdr)
                 IN  CASE which = "both" -> zero(locals)
                       [] which = "first" -> accept(locals, (base_addr + IMAGE_OFFSET) % PageMod)
                       [] which = "second" -> accept(locals, (base_addr + 2 * IMAGE_OFFSET) % PageMod)
                       [] OTHER ->
                            /\ capped => gkb[t].strides < MaxStrides
                            /\ base_addr' = StrideFurther(base_addr)
                            /\ gkb' = [gkb EXCEPT ![t] = [locals EXCEPT
                                          !.strides = IF capped THEN @ + 1
                                                      ELSE (@ + 1) % (PageMod \div STRIDE),
                                          !.probe = <<>>,
                                          !.prev = <<r1.hdr.magic, r2.hdr.magic>>]]
                            /\ Goto(t, "gkb_147")
                            /\ UNCHANGED base_initialized
    /\ UNCHANGED <<located, firstBase, locatedBy, gkt>>
    /\ UNCHANGED <<taskVars, xf, findVars>>

\* lines 144-219, at most MaxStrides turns going 0x100000 further
GkbProbe(t) == ProbeHeaders(t, TRUE, HeaderReads)

\* lines 223-224: return addr;
GkbReturnAddr(t) ==
    /\ At(t, "gkb_223")
    /\ gkb' = [gkb EXCEPT ![t].done = TRUE, ![t].result = base_addr]
    /\ located' = TRUE
    /\ firstBase' = IF located THEN firstBase ELSE base_addr
    /\ locatedBy' = IF located THEN locatedBy
                    ELSE [region |-> gkb[t].region, strides |-> gkb[t].strides,
                          probe |-> gkb[t].probe]
    /\ Return(t)
    /\ UNCHANGED <<base_addr, base_initialized, gkt>>
    /\ UNCHANGED <<taskVars, xf, findVars>>

get_kernel_base(t) ==
    \/ GkbTestInitialized(t)
    \/ GkbAfterTask(t)
    \/ GkbNextRegion(t)
    \/ GkbProbe(t)
    \/ GkbReturnAddr(t)

\* lines 121-136 on a target whose regions are all longer than 1 GiB, lie
\* one after the other and cannot be read, written or executed
GkbNextRegionPacked(t) == NextRegion(t, {0}, {GiB + 1}, {{}})

\* A page that cannot be read, one that holds no header and one that holds
\* the header of the kernel.
PlainReads ==
    {r \in HeaderReads : r.ok => r.hdr.magic = (r.hdr.cputype /\ r.hdr.filetype)}

\* lines 144-219 with as many turns as the headers read ask for
GkbProbeUncapped(t) == ProbeHeaders(t, FALSE, PlainReads)

\* lines 96-225 with the while(true) loop left unlimited
get_kernel_base_uncapped(t) ==
    \/ GkbTestInitialized(t)
    \/ GkbAfterTask(t)
    \/ GkbNextRegionPacked(t)
    \/ GkbProbeUncapped(t)
    \/ GkbReturnAddr(t)

\* A caller of the library calls get_kernel_base().
CallGetKernelBase(t) ==
    /\ At(t, "idle")
    /\ Call(t, "gkb_101", "idle")
    /\ gkb' = [gkb EXCEPT ![t] = GkbFresh(located)]
    /\ gkt' = [gkt EXCEPT ![t] = GktGone(@)]
    /\ xf' = [xf EXCEPT ![t] = XferFresh("none", 0, 0)]
    /\ UNCHANGED <<base_addr, base_initialized, located, firstBase, locatedBy>>
    /\ UNCHANGED <<taskVars, findVars>>

\* ------------------------------------------------------------ read_kernel, write_kernel
\* lines 235-243, 266-272: if(ret != KERN_SUCCESS) return -1; otherwise
\* vm_address_t end = addr + size.
XferAfterTask(t, loop) ==
    /\ LET locals == [xf[t] EXCEPT !.ret = gkt[t].ret,
                                   !.kernel_task = IF gkt[t].wrote THEN gkt[t].out ELSE @]
       IN  IF locals.ret /= KERN_SUCCESS
           THEN /\ xf' = [xf EXCEPT ![t] = [locals EXCEPT !.done = TRUE,
                                                          !.result = AddrMod - 1]]
                /\ Return(t)
           ELSE /\ xf' = [xf EXCEPT ![t] = [locals EXCEPT !.acquired = TRUE,
                                                          !.end = (locals.addr + locals.size) % AddrMod]]
                /\ Goto(t, loop)
    /\ gkt' = [gkt EXCEPT ![t] = GktGone(@)]
    /\ UNCHANGED <<taskVars, baseVars, findVars>>

\* lines 243, 255 and 272, 284: the loop test fails: return the bytes moved.
XferReturn(t) ==
    /\ ~(xf[t].addr < xf[t].end)
    /\ xf' = [xf EXCEPT ![t].done = TRUE, ![t].result = xf[t].moved]
    /\ Return(t)
    /\ UNCHANGED <<taskVars, baseVars, gkt, findVars>>

\* Lines 245, 274 without the limit.
ChunkSize_Whole(remainder) == remainder

\* line 245, 274: size = remainder > MAX_CHUNK_SIZE ? MAX_CHUNK_SIZE : remainder;
ChunkSize(remainder) == IF remainder > MAX_CHUNK_SIZE THEN MAX_CHUNK_SIZE ELSE remainder

\* Line 247 without the test of size.
ReadStops_StatusOnly(ret, size) == ret /= KERN_SUCCESS

\* line 247: if(ret != KERN_SUCCESS || size == 0) break;
ReadStops(ret, size) == ret /= KERN_SUCCESS \/ size = 0

\* line 276: if (ret != KERN_SUCCESS) break;
WriteStops(ret) == ret /= KERN_SUCCESS

\* The rest of a loop turn once the Mach call has answered ret and moved
\* got bytes: break and return the bytes moved so far (lines 249, 255 and
\* 278, 284), or count the chunk and take the loop's remainder -= size.
XferTurn(t, size, ret, got, stops) ==
    LET locals == [xf[t] EXCEPT
                     !.ret = ret,
                     !.size = got,
                     !.short = IF ret = KERN_SUCCESS /\ got < size THEN @ + 1 ELSE @,
                     !.log = Append(@, [addr |-> xf[t].addr, size |-> size,
                                        off |-> xf[t].moved, ret |-> ret,
                                        got |-> IF ret = KERN_SUCCESS THEN got ELSE 0])]
    IN  IF stops
        THEN /\ xf' = [xf EXCEPT ![t] = [locals EXCEPT !.done = TRUE, !.result = locals.moved]]
             /\ Return(t)
        ELSE /\ xf' = [xf EXCEPT ![t] = [locals EXCEPT
                                            !.moved = (@ + got) % AddrMod,
                                            !.addr = (@ + got) % AddrMod,
                                            !.remainder = (@ - got) % AddrMod]]
             /\ UNCHANGED pc

\* lines 235-239
ReadKernelAfterTask(t) == At(t, "rk_236") /\ XferAfterTask(t, "rk_243")

\* lines 243-253: one turn of the loop: vm_read_overwrite fails, or succeeds
\* and stores the bytes it copied in size.
ReadKernelChunk(t) ==
    /\ At(t, "rk_243")
    /\ xf[t].addr < xf[t].end
    /\ LET size == ChunkSize(xf[t].remainder) IN
        \E ret \in {KERN_SUCCESS, KERN_FAILURE}, got \in {0, 1, size} :
            /\ got <= size
            /\ ret /= KERN_SUCCESS => got = size
            /\ (ret = KERN_SUCCESS /\ got < size) => xf[t].short < MaxShort
            /\ XferTurn(t, size, ret, got, ReadStops(ret, got))
    /\ UNCHANGED <<taskVars, baseVars, gkt, findVars>>

\* lines 243, 255
ReadKernelReturn(t) == At(t, "rk_243") /\ XferReturn(t)

read_kernel(t) ==
    \/ ReadKernelAfterTask(t)
    \/ ReadKernelChunk(t)
    \/ ReadKernelReturn(t)

\* lines 266-270
WriteKernelAfterTask(t) == At(t, "wk_267") /\ XferAfterTask(t, "wk_272")

\* The byte of the caller's buffer at offset i: the buffers of the callers
\* hold the bytes of data and zeroes after them.
DataAt(data, i) == IF i < Len(data) THEN data[i + 1] ELSE 0

\* The target's memory once size bytes of data, from offset off on, are
\* stored at addr.
Stored(mem, addr, size, data, off) ==
    [a \in Window |-> IF addr <= a /\ a < addr + size
                      THEN DataAt(data, off + (a - addr))
                      ELSE mem[a]]

\* lines 272-282: one turn of the loop: vm_write fails or writes size bytes
\* of data + bytes_written.
WriteKernelChunk(t) ==
    /\ At(t, "wk_272")
    /\ xf[t].addr < xf[t].end
    /\ LET size == ChunkSize(xf[t].remainder) IN
        \E ret \in {KERN_SUCCESS, KERN_FAILURE} :
            /\ XferTurn(t, size, ret, size, WriteStops(ret))
            /\ kmem' = IF ret = KERN_SUCCESS
                       THEN Stored(kmem, xf[t].addr, size, xf[t].data, xf[t].moved)
                       ELSE kmem
    /\ UNCHANGED <<taskVars, baseVars, gkt, fbk>>

\* lines 272, 284
WriteKernelReturn(t) == At(t, "wk_272") /\ XferReturn(t)

write_kernel(t) ==
    \/ WriteKernelAfterTask(t)
    \/ WriteKernelChunk(t)
    \/ WriteKernelReturn(t)

\* lines 227-235: read_kernel begins and calls get_kernel_task.
ReadKernelEnter(t, addr, size, cont) ==
    /\ xf' = [xf EXCEPT ![t] = XferFresh("read", addr, size)]
    /\ pc' = [pc EXCEPT ![t] = <<"gkt_65", "rk_236", cont>> \o Tail(@)]
    /\ GktEnter(t)

\* A caller of the library calls read_kernel(addr, size, buf).
CallReadKernel(t) ==
    /\ At(t, "idle")
    /\ \E addr \in XferAddrs, size \in XferSizes : ReadKernelEnter(t, addr, size, "idle")
    /\ gkb' = [gkb EXCEPT ![t] = GkbFresh(FALSE)]
    /\ UNCHANGED <<base_addr, base_initialized, located, firstBase, locatedBy>>
    /\ UNCHANGED <<taskVars, findVars>>

\* A caller of the library calls write_kernel(addr, data, size).
CallWriteKernel(t) ==
    /\ At(t, "idle")
    /\ \E addr \in XferAddrs, size \in XferSizes :
        /\ xf' = [xf EXCEPT ![t] = XferFresh("write", addr, size)]
        /\ pc' = [pc EXCEPT ![t] = <<"gkt_65", "wk_267", "idle">> \o Tail(@)]
        /\ GktEnter(t)
    /\ gkb' = [gkb EXCEPT ![t] = GkbFresh(FALSE)]
    /\ UNCHANGED <<base_addr, base_initialized, located, firstBase, locatedBy>>
    /\ UNCHANGED <<taskVars, findVars>>

\* A caller of the library calls write_kernel(addr, data, Len(data)) for
\* bytes inside Window.
CallWriteBytes(t) ==
    /\ At(t, "idle")
    /\ \E addr \in Window, data \in Patterns :
        /\ addr + Len(data) <= WindowLen
        /\ xf' = [xf EXCEPT ![t] = [XferFresh("write", addr, Len(data)) EXCEPT
                                       !.data = data]]
        /\ pc' = [pc EXCEPT ![t] = <<"gkt_65", "wk_267", "idle">> \o Tail(@)]
        /\ GktEnter(t)
    /\ gkb' = [gkb EXCEPT ![t] = GkbFresh(FALSE)]
    /\ fbk' = [fbk EXCEPT ![t] = FbkFresh(0, 0, <<>>, <<>>)]
    /\ UNCHANGED <<base_addr, base_initialized, located, firstBase, locatedBy>>
    /\ UNCHANGED <<taskVars, kmem>>

\* ------------------------------------------------------------ find_bytes_kern
\* Whether byte i of the buffer was filled by a vm_read_overwrite call of the
\* log.
Transferred(log, i) ==
    \E j \in DOMAIN log :
        /\ log[j].ret = KERN_SUCCESS
        /\ log[j].off <= i /\ i < log[j].off + log[j].got

\* The buffer after read_kernel: the bytes the logged calls copied from the
\* target, and what malloc left (junk) where none did.
BufferOf(log, mem, junk, n) ==
    [i \in 0..(n - 1) |->
        IF Transferred(log, i)
        THEN LET j == CHOOSE j \in DOMAIN log :
                        /\ log[j].ret = KERN_SUCCESS
                        /\ log[j].off <= i /\ i < log[j].off + log[j].got
             IN  mem[log[j].addr + (i - log[j].off)]
        ELSE junk[i]]

\* The offsets at which the bytes of little occur in the first n of big.
Occurrences(big, n, little) ==
    {k \in 0..(n - Len(little)) : \A i \in 1..Len(little) : big[k + i - 1] = little[i]}

\* The least of a non-empty set of numbers.
Least(S) == CHOOSE k \in S : \A m \in S : k <= m

\* Line 296 taking the last occurrence.
memmem_Last(big, n, little) ==
    LET hits == Occurrences(big, n, little)
    IN  IF hits = {} THEN <<>> ELSE <<CHOOSE k \in hits : \A m \in hits : m <= k>>

\* line 296: memmem(buf, end - start, bytes, length): the offset of the first
\* occurrence, or none (NULL).
memmem(big, n, little) ==
    LET hits == Occurrences(big, n, little)
    IN  IF hits = {} THEN <<>> ELSE <<Least(hits)>>

\* line 294: if(read_kernel(start, end - start, buf))
ReadSomething(n) == n /= 0

\* lines 289-294: malloc gives no buffer and the call returns 0, or gives
\* one and read_kernel(start, end - start, buf) is called.
FbkMalloc(t) ==
    /\ At(t, "fbk_290")
    /\ \/ /\ fbk' = [fbk EXCEPT ![t].done = TRUE, ![t].ret = 0]
          /\ Return(t)
          /\ UNCHANGED <<xf, gkt>>
       \/ /\ fbk' = [fbk EXCEPT ![t].buf = TRUE]
          /\ ReadKernelEnter(t, fbk[t].start, (fbk[t].end - fbk[t].start) % AddrMod,
                             "fbk_294")
    /\ UNCHANGED <<taskVars, baseVars, kmem>>

\* lines 294-304: if read_kernel returned non-zero, search the whole buffer
\* and turn the offset of the match into an address; free; return ret.
FbkSearch(t) ==
    /\ At(t, "fbk_294")
    /\ LET n == (fbk[t].end - fbk[t].start) % AddrMod IN
        \E junk \in [{i \in 0..(n - 1) : ~Transferred(xf[t].log, i)} -> Bytes] :
            LET buf == BufferOf(xf[t].log, kmem, junk, n)
                addr == IF ReadSomething(xf[t].result)
                        THEN memmem(buf, n, fbk[t].bytes)
                        ELSE <<>>
                ret == IF addr /= <<>> THEN (addr[1] + fbk[t].start) % AddrMod ELSE 0
            IN  fbk' = [fbk EXCEPT ![t].done = TRUE, ![t].ret = ret]
    /\ Return(t)
    /\ UNCHANGED <<taskVars, baseVars, kmem, xf, gkt>>

find_bytes_kern(t) ==
    \/ FbkMalloc(t)
    \/ FbkSearch(t)

\* The write_kernel call the thread has just completed in full, if it has.
WrittenInFull(x) ==
    IF /\ x.op = "write" /\ x.done /\ x.acquired
       /\ x.size0 = Len(x.data) /\ x.size0 > 0
       /\ x.result = x.size0
    THEN <<[addr |-> x.addr0, data |-> x.data]>>
    ELSE <<>>

\* A caller of the library calls find_bytes_kern(start, end, bytes, length)
\* for a range inside Window.
CallFindBytesKern(t) ==
    /\ At(t, "idle")
    /\ \E start \in SearchStarts, end \in SearchEnds, bytes \in Patterns :
        /\ start <= end
        /\ fbk' = [fbk EXCEPT ![t] = FbkFresh(start, end, bytes, WrittenInFull(xf[t]))]
    /\ pc' = [pc EXCEPT ![t] = <<"fbk_290">> \o @]
    /\ xf' = [xf EXCEPT ![t] = XferFresh("none", 0, 0)]
    /\ gkb' = [gkb EXCEPT ![t] = GkbFresh(FALSE)]
    /\ UNCHANGED <<base_addr, base_initialized, located, firstBase, locatedBy>>
    /\ UNCHANGED <<taskVars, kmem, gkt>>

\* ------------------------------------------------------------ specifications
\* One thread calling get_kernel_task again and again.
Next == CallGetKernelTask(1) \/ get_kernel_task(1)

Spec == Init /\ [][Next]_vars

\* One thread calling get_kernel_base and get_kernel_task in any order.
NextBase ==
    \/ CallGetKernelBase(1)
    \/ get_kernel_base(1)
    \/ CallGetKernelTask(1)
    \/ get_kernel_task(1)

SpecBase == Init /\ [][NextBase]_vars

\* One thread calling read_kernel, write_kernel and get_kernel_task in any
\* order.
NextXfer ==
    \/ CallReadKernel(1)
    \/ read_kernel(1)
    \/ CallWriteKernel(1)
    \/ write_kernel(1)
    \/ CallGetKernelTask(1)
    \/ get_kernel_task(1)

SpecXfer == Init /\ [][NextXfer]_vars

\* One thread writing bytes into the target and searching ranges of it, in
\* any order.
NextFind ==
    \/ CallWriteBytes(1)
    \/ write_kernel(1)
    \/ CallFindBytesKern(1)
    \/ find_bytes_kern(1)
    \/ read_kernel(1)
    \/ get_kernel_task_racing(1)

SpecFind == Init /\ [][NextFind]_vars

\* Threads that call get_kernel_task with no lock between them: the
\* statements of the calls interleave in any order.
NextMT == \E t \in Threads : CallGetKernelTask(t) \/ get_kernel_task_racing(t)

SpecMT == Init /\ [][NextMT]_vars

\* The statements of a call that has begun.
RunLive == get_kernel_base_uncapped(1) \/ get_kernel_task_racing(1)

NextLive == CallGetKernelBase(1) \/ RunLive

\* A thread inside get_kernel_base or get_kernel_task is not suspended for
\* ever: its next statement is executed.  Callers need not call.
SpecLive == Init /\ [][NextLive]_vars /\ WF_vars(RunLive)

\* ------------------------------------------------------------ get_kernel_task: claims
FallbackTried(t) == \E i \in DOMAIN gkt[t].calls : gkt[t].calls[i] = "host_get_special_port(4)"

\* C1: once a call to get_kernel_task has returned KERN_SUCCESS, every call
\* begun later returns KERN_SUCCESS, stores the port of that first success in
\* *task and calls neither task_for_pid nor host_get_special_port.
C1_CachedHandle ==
    \A t \in Threads :
        (gkt[t].done /\ gkt[t].after) =>
            /\ gkt[t].ret = KERN_SUCCESS
            /\ gkt[t].wrote
            /\ gkt[t].out = firstPort
            /\ gkt[t].calls = <<>>

\* A call begun after a success has returned, the cached port being 515.
C1_Witness ==
    gkt[1].done /\ gkt[1].after /\ gkt[1].cached /\ gkt[1].out = 515

\* C3: a call in which both strategies fail returns a failure, leaves *task
\* unwritten and the cache uninitialised; the call that follows a failed
\* call starts again with task_for_pid.
C3_FailureNotCached ==
    \A t \in Threads :
        /\ (gkt[t].done /\ Len(gkt[t].verdicts) = 2
                /\ gkt[t].verdicts[2].ret /= KERN_SUCCESS) =>
              /\ gkt[t].ret /= KERN_SUCCESS
              /\ ~gkt[t].wrote
              /\ task_initialized = 0
        /\ (gkt[t].done /\ gkt[t].retry) =>
              /\ ~gkt[t].cached
              /\ Len(gkt[t].calls) >= 1
              /\ gkt[t].calls[1] = "task_for_pid(0)"

\* A call that follows a failed call acquires a port and caches it.
C3_Witness ==
    /\ gkt[1].done /\ gkt[1].retry /\ gkt[1].ret = KERN_SUCCESS
    /\ task_initialized = 1 /\ gkt[1].out = kernel_task

\* C4: VERIFY_PORT's verdict is success exactly for a valid port, is
\* KERN_FAILURE for an invalid port reported with success and is the
\* reported status otherwise; a call that returns KERN_SUCCESS stores a valid
\* port in *task, the one it acquired if it acquired one.
C4_VerdictByValidity ==
    \A t \in Threads :
        /\ \A i \in DOMAIN gkt[t].verdicts :
              LET v == gkt[t].verdicts[i] IN
                /\ MACH_PORT_VALID(v.port) => v.ret = KERN_SUCCESS
                /\ (~MACH_PORT_VALID(v.port) /\ v.status = KERN_SUCCESS) => v.ret = KERN_FAILURE
                /\ (~MACH_PORT_VALID(v.port) /\ v.status /= KERN_SUCCESS) => v.ret = v.status
        /\ (gkt[t].done /\ gkt[t].ret = KERN_SUCCESS) =>
              /\ gkt[t].wrote
              /\ MACH_PORT_VALID(gkt[t].out)
              /\ gkt[t].acquired \in {<<>>, <<gkt[t].out>>}

\* A call returns KERN_SUCCESS for a valid port that host_get_special_port
\* reported with a failure status.
C4_Witness ==
    /\ gkt[1].done /\ gkt[1].ret = KERN_SUCCESS /\ Len(gkt[1].verdicts) = 2
    /\ gkt[1].verdicts[2].status = KERN_INVALID_ARGUMENT
    /\ gkt[1].acquired = <<gkt[1].out>>

\* C5 as claimed: an uncached call tries host_get_special_port exactly when
\* task_for_pid stored an invalid port or returned a failure status.
C5_FallbackOnPortOrStatus ==
    \A t \in Threads :
        (gkt[t].done /\ ~gkt[t].cached) =>
            (FallbackTried(t) <=>
                (\/ ~MACH_PORT_VALID(gkt[t].primary[1].port)
                 \/ gkt[t].primary[1].ret /= KERN_SUCCESS))

\* C5: an uncached call first calls task_for_pid, and then tries
\* host_get_special_port exactly when task_for_pid stored an invalid port,
\* whatever status it returned.
C5_FallbackOnInvalidPort ==
    \A t \in Threads :
        (gkt[t].done /\ ~gkt[t].cached) =>
            /\ gkt[t].calls[1] = "task_for_pid(0)"
            /\ FallbackTried(t) <=> ~MACH_PORT_VALID(gkt[t].primary[1].port)
            /\ Len(gkt[t].calls) = IF FallbackTried(t) THEN 2 ELSE 1

\* task_for_pid stores a valid port and returns a failure status: no fallback.
C5_Witness ==
    /\ gkt[1].done /\ ~gkt[1].cached
    /\ MACH_PORT_VALID(gkt[1].primary[1].port)
    /\ gkt[1].primary[1].ret = KERN_FAILURE
    /\ gkt[1].calls = <<"task_for_pid(0)">>

\* ------------------------------------------------------------ get_kernel_base: claims
\* The address the current step of the header loop probes from: the start
\* of the matched region plus the strides taken.
ProbeBase(r) == r.region[1] + r.strides * STRIDE

\* C2: once a call to get_kernel_base has returned a cached address, every
\* call begun later returns that address and calls neither get_kernel_task
\* nor vm_region_recurse_64 nor vm_read_overwrite, whatever they would answer.
C2_CachedBase ==
    \A t \in Threads :
        (gkb[t].done /\ gkb[t].after) =>
            /\ gkb[t].result = firstBase
            /\ gkb[t].cached
            /\ ~gkb[t].called
            /\ gkb[t].scan = <<>> /\ gkb[t].probe = <<>>

\* A later call returns the address an earlier call found one stride in.
C2_Witness ==
    /\ gkb[1].done /\ gkb[1].after /\ gkb[1].cached
    /\ locatedBy.strides = 1
    /\ gkb[1].result = RegionGap + STRIDE + 2 * IMAGE_OFFSET

\* C9: a non-zero address returned by get_kernel_base was read successfully
\* in the run that located it and had the magic there; it is the start of
\* the matched region plus the strides taken plus IMAGE_OFFSET or
\* 2 * IMAGE_OFFSET, and is not the start of the region.
C9_ResultIsHeader ==
    \A t \in Threads :
        (gkb[t].done /\ gkb[t].result /= 0) =>
            /\ located
            /\ locatedBy.region /= <<>>
            /\ \E i \in DOMAIN locatedBy.probe :
                  /\ locatedBy.probe[i].at = gkb[t].result
                  /\ locatedBy.probe[i].ok
                  /\ locatedBy.probe[i].hdr.magic
            /\ \E off \in {IMAGE_OFFSET, 2 * IMAGE_OFFSET} :
                  gkb[t].result = ProbeBase(locatedBy) + off
            /\ gkb[t].result /= locatedBy.region[1]

\* The second header cannot be read and the first, two strides in, is taken.
C9_Witness ==
    /\ gkb[1].done /\ ~gkb[1].cached /\ gkb[1].strides = 2
    /\ Len(gkb[1].probe) = 2 /\ ~gkb[1].probe[2].ok
    /\ gkb[1].result = gkb[1].region[1] + 2 * STRIDE + IMAGE_OFFSET

\* C10: when both headers of a step are read and exactly one has the magic,
\* the locator returns the address of that one, IMAGE_OFFSET or
\* 2 * IMAGE_OFFSET past the address probed from, and caches it.
C10_ExactlyOneMagic ==
    \A t \in Threads :
        (/\ gkb[t].done /\ ~gkb[t].cached /\ Len(gkb[t].probe) = 2
         /\ gkb[t].probe[1].ok /\ gkb[t].probe[2].ok
         /\ gkb[t].probe[1].hdr.magic /= gkb[t].probe[2].hdr.magic) =>
            /\ gkb[t].probe[1].at = ProbeBase(gkb[t]) + IMAGE_OFFSET
            /\ gkb[t].probe[2].at = ProbeBase(gkb[t]) + 2 * IMAGE_OFFSET
            /\ gkb[t].result = IF gkb[t].probe[1].hdr.magic
                               THEN ProbeBase(gkb[t]) + IMAGE_OFFSET
                               ELSE ProbeBase(gkb[t]) + 2 * IMAGE_OFFSET
            /\ base_initialized = 1
            /\ base_addr = gkb[t].result

\* Only the header at 2 * IMAGE_OFFSET from the region's start has the magic.
C10_Witness ==
    /\ gkb[1].done /\ ~gkb[1].cached /\ gkb[1].strides = 0
    /\ Len(gkb[1].probe) = 2 /\ gkb[1].probe[1].ok /\ gkb[1].probe[2].ok
    /\ ~gkb[1].probe[1].hdr.magic /\ gkb[1].probe[2].hdr.magic
    /\ gkb[1].result = gkb[1].region[1] + 2 * IMAGE_OFFSET
    /\ base_initialized = 1

\* ------------------------------------------------------------ read_kernel, write_kernel: claims
RECURSIVE SumGot(_, _)
\* The bytes moved by the first n calls of a log.
SumGot(log, n) == IF n = 0 THEN 0 ELSE SumGot(log, n - 1) + log[n].got

\* ceil(n / d)
CeilDiv(n, d) == (n + d - 1) \div d

\* A logged call that failed or, for a read, moved no bytes.
ChunkFailed(op, e) == e.ret /= KERN_SUCCESS \/ (op = "read" /\ e.got = 0)

\* C6 as claimed: for any start address and length L, a read_kernel or
\* write_kernel call that has the port and whose chunk calls all succeed in
\* full makes exactly ceil(L / MAX_CHUNK_SIZE) of them and returns the sum
\* of the bytes they moved.
C6_ChunkCount ==
    \A t \in Threads :
        (/\ xf[t].done /\ xf[t].acquired
         /\ \A i \in DOMAIN xf[t].log :
               xf[t].log[i].ret = KERN_SUCCESS /\ xf[t].log[i].got = xf[t].log[i].size) =>
            /\ Len(xf[t].log) = CeilDiv(xf[t].size0, MAX_CHUNK_SIZE)
            /\ xf[t].result = SumGot(xf[t].log, Len(xf[t].log))

\* C7: in read_kernel and write_kernel a chunk call that fails (or, for a
\* read, moves 0 bytes) is the last call made: the function returns at once,
\* and returns the sum of the bytes moved by the calls before it.
C7_StopsAtFailure ==
    \A t \in Threads :
        LET log == xf[t].log
            k == Len(log)
        IN  /\ \A i \in 1..(k - 1) : ~ChunkFailed(xf[t].op, log[i])
            /\ (k > 0 /\ ChunkFailed(xf[t].op, log[k])) =>
                  /\ xf[t].done
                  /\ xf[t].result = SumGot(log, k - 1)

\* The third chunk of a read of 2^AddrBits - 1 bytes moves 0 bytes.
C7_Witness ==
    /\ xf[1].done /\ xf[1].op = "read" /\ xf[1].size0 = AddrMod - 1
    /\ Len(xf[1].log) = 3
    /\ xf[1].log[3].ret = KERN_SUCCESS /\ xf[1].log[3].got = 0
    /\ xf[1].result = 2 * MAX_CHUNK_SIZE

\* C8 as claimed: without the port, read_kernel and write_kernel make no
\* transfer call and return (vm_size_t)-1, and with the port they never
\* return that value.
C8_SentinelDistinct ==
    \A t \in Threads :
        xf[t].done =>
            IF xf[t].acquired
            THEN xf[t].result /= AddrMod - 1
            ELSE xf[t].result = AddrMod - 1 /\ xf[t].log = <<>>

\* A step of the header search in which both headers were read.
BothRead(r) == Len(r.probe) = 2 /\ r.probe[1].ok /\ r.probe[2].ok

\* hdr.cputype == MACH_TYPE && hdr.filetype == MH_EXECUTE
TypeOk(hdr) == hdr.cputype /\ hdr.filetype

\* C11: when both headers of a step are read and both have the magic, the
\* cputype and the filetype, the locator returns 0 and leaves the cache of
\* the base unset; a call that finds the cache unset does not return the
\* cached address and begins its scan of the regions at address 0.
C11_BothPassReturnsZero ==
    \A t \in Threads :
        /\ (/\ gkb[t].done /\ ~gkb[t].cached /\ BothRead(gkb[t])
            /\ \A i \in 1..2 : /\ gkb[t].probe[i].hdr.magic
                                /\ TypeOk(gkb[t].probe[i].hdr)) =>
               /\ gkb[t].result = 0
               /\ base_initialized = 0
               /\ ~located
        /\ gkb[t].cached => base_initialized = 1
        /\ (~gkb[t].cached /\ gkb[t].scan /= <<>>) => gkb[t].scan[1].query = 0

\* One stride in, both headers pass every test: the call returns 0 and
\* leaves the address it stopped at behind.
C11_Witness ==
    /\ gkb[1].done /\ ~gkb[1].cached /\ BothRead(gkb[1])
    /\ \A i \in 1..2 : gkb[1].probe[i].hdr.magic /\ TypeOk(gkb[1].probe[i].hdr)
    /\ gkb[1].strides = 1
    /\ gkb[1].result = 0
    /\ base_addr = RegionGap + STRIDE

\* C12: a step that reads both headers and finds the magic in neither does
\* not end the call: the address goes exactly 0x100000 further and the two
\* headers are read again from there, the scan of the regions still standing
\* at the matched region; a call that finds the header after one such step
\* returns the start of the region plus 0x100000 plus the offset of the
\* header that has the magic.
C12_StrideRetry ==
    \A t \in Threads :
        /\ (gkb[t].done /\ ~gkb[t].cached /\ BothRead(gkb[t])) =>
               (gkb[t].probe[1].hdr.magic \/ gkb[t].probe[2].hdr.magic)
        /\ At(t, "gkb_147") =>
               /\ base_addr = ProbeBase(gkb[t])
               /\ gkb[t].probe = <<>>
               /\ gkb[t].scan[Len(gkb[t].scan)].start = gkb[t].region[1]
               /\ (gkb[t].strides = 0) = (gkb[t].prev = <<>>)
        /\ (gkb[t].probe /= <<>> /\ gkb[t].prev /= <<>>) =>
               /\ gkb[t].probe[1].at = gkb[t].region[1] + gkb[t].strides * STRIDE
                                          + IMAGE_OFFSET
               /\ gkb[t].scan[Len(gkb[t].scan)].start = gkb[t].region[1]
        /\ (/\ gkb[t].done /\ ~gkb[t].cached /\ gkb[t].result /= 0
            /\ gkb[t].strides = 1 /\ gkb[t].prev = <<FALSE, FALSE>>) =>
               \E i \in DOMAIN gkb[t].probe :
                  /\ gkb[t].probe[i].ok /\ gkb[t].probe[i].hdr.magic
                  /\ gkb[t].result = gkb[t].region[1] + STRIDE + i * IMAGE_OFFSET

\* Neither header at the start of the region has the magic; 0x100000 further
\* the second one has it.
C12_Witness ==
    /\ gkb[1].done /\ ~gkb[1].cached /\ BothRead(gkb[1])
    /\ gkb[1].strides = 1 /\ gkb[1].prev = <<FALSE, FALSE>>
    /\ ~gkb[1].probe[1].hdr.magic /\ gkb[1].probe[2].hdr.magic
    /\ Len(gkb[1].scan) = 2
    /\ gkb[1].result = gkb[1].region[1] + STRIDE + 2 * IMAGE_OFFSET

\* C16: when the first header cannot be read the locator returns 0 and does
\* not read the second; when the first is read and the second cannot be, it
\* returns the address of the first exactly when the first has the magic and
\* 0 otherwise, and in neither case goes 0x100000 further.
C16_UnreadableHeader ==
    \A t \in Threads :
        /\ (gkb[t].probe /= <<>> /\ ~gkb[t].probe[1].ok) =>
               /\ Len(gkb[t].probe) = 1
               /\ gkb[t].done /\ gkb[t].result = 0
               /\ base_initialized = 0
        /\ (Len(gkb[t].probe) = 2 /\ gkb[t].probe[1].ok /\ ~gkb[t].probe[2].ok) =>
               /\ ~At(t, "gkb_147")
               /\ IF gkb[t].probe[1].hdr.magic
                  THEN \/ At(t, "gkb_223")
                       \/ /\ gkb[t].done
                          /\ gkb[t].result = gkb[t].probe[1].at
                          /\ base_initialized = 1 /\ base_addr = gkb[t].result
                  ELSE /\ gkb[t].done /\ gkb[t].result = 0
                       /\ base_initialized = 0

\* The first header is read and lacks the magic, the second cannot be read.
C16_Witness ==
    /\ gkb[1].done /\ Len(gkb[1].probe) = 2
    /\ gkb[1].probe[1].ok /\ ~gkb[1].probe[1].hdr.magic
    /\ ~gkb[1].probe[2].ok
    /\ gkb[1].strides = 0
    /\ gkb[1].result = 0

\* C20: when both headers have the magic, the cputype and filetype decide:
\* if exactly one header has both, its address is returned and cached; if
\* neither has, the call does not return 0 there but goes 0x100000 further.
C20_TypeDecides ==
    \A t \in Threads :
        /\ (/\ gkb[t].done /\ ~gkb[t].cached /\ BothRead(gkb[t])
            /\ gkb[t].probe[1].hdr.magic /\ gkb[t].probe[2].hdr.magic) =>
               LET t1 == TypeOk(gkb[t].probe[1].hdr)
                   t2 == TypeOk(gkb[t].probe[2].hdr)
               IN  /\ t1 \/ t2
                   /\ (t1 /\ ~t2) => /\ gkb[t].result = gkb[t].probe[1].at
                                      /\ base_initialized = 1
                                      /\ base_addr = gkb[t].result
                   /\ (t2 /\ ~t1) => /\ gkb[t].result = gkb[t].probe[2].at
                                      /\ base_initialized = 1
                                      /\ base_addr = gkb[t].result
        /\ (At(t, "gkb_147") /\ gkb[t].prev = <<TRUE, TRUE>>) =>
               /\ gkb[t].strides >= 1
               /\ base_addr = ProbeBase(gkb[t])

\* Both headers at the start of the region have the magic and the wrong
\* type; 0x100000 further both have the magic and only the second the type.
C20_Witness ==
    /\ gkb[1].done /\ ~gkb[1].cached /\ BothRead(gkb[1])
    /\ gkb[1].strides = 1 /\ gkb[1].prev = <<TRUE, TRUE>>
    /\ gkb[1].probe[1].hdr.magic /\ ~TypeOk(gkb[1].probe[1].hdr)
    /\ gkb[1].probe[2].hdr.magic /\ TypeOk(gkb[1].probe[2].hdr)
    /\ gkb[1].result = gkb[1].region[1] + STRIDE + 2 * IMAGE_OFFSET

\* A region longer than 1 GiB that can be neither read, written nor executed.
HugeAndClosed(e) ==
    /\ e.size > GiB
    /\ e.protection \cap {"VM_PROT_READ", "VM_PROT_WRITE", "VM_PROT_EXECUTE"} = {}

\* C15: the scan of the regions asks for address 0 first and then for the
\* end of the region it was given last, so the regions come in ascending
\* order; it passes over every region that is not both longer than 1 GiB and
\* closed to read, write and execute, and reads headers in the first region
\* that is and in no other; if that search gives no header, or if the
\* enumeration fails before such a region is met, the result is 0.
C15_RegionScan ==
    \A t \in Threads :
        LET s == gkb[t].scan
            n == Len(s)
        IN  /\ n > 0 => s[1].query = 0
            /\ \A i \in 1..n : s[i].start >= s[i].query
            /\ \A i \in 1..(n - 1) :
                   /\ ~HugeAndClosed(s[i])
                   /\ s[i + 1].query = (s[i].start + s[i].size) % PageMod
                   /\ s[i].start + s[i].size < PageMod => s[i + 1].start > s[i].start
            /\ (gkb[t].region /= <<>>) = (n > 0 /\ HugeAndClosed(s[n]))
            /\ gkb[t].region /= <<>> => gkb[t].region[1] = s[n].start
            /\ gkb[t].probe /= <<>> =>
                   /\ gkb[t].region /= <<>>
                   /\ gkb[t].probe[1].at >= gkb[t].region[1]
            /\ (gkb[t].done /\ gkb[t].region = <<>> /\ ~gkb[t].cached) =>
                   gkb[t].result = 0
            /\ (gkb[t].done /\ ~gkb[t].cached /\ gkb[t].result /= 0) =>
                   gkb[t].region /= <<>>

\* Two regions are passed over, the third is taken and no header is found
\* in it: the call returns 0 having asked for no fourth region.
C15_Witness ==
    /\ gkb[1].done /\ ~gkb[1].cached
    /\ Len(gkb[1].scan) = 3
    /\ gkb[1].scan[1].size > GiB /\ gkb[1].scan[1].protection /= {}
    /\ gkb[1].scan[2].size = GiB /\ gkb[1].scan[2].protection = {}
    /\ gkb[1].region = <<gkb[1].scan[3].start>>
    /\ gkb[1].probe /= <<>>
    /\ gkb[1].result = 0

\* The enumeration fails after two regions that were passed over.
C15_WitnessFailure ==
    /\ gkb[1].done /\ ~gkb[1].cached
    /\ Len(gkb[1].scan) = 2 /\ gkb[1].region = <<>>
    /\ gkb[1].ret = KERN_FAILURE
    /\ gkb[1].result = 0

\* C17: in read_kernel and write_kernel, at the start of every turn of the
\* loop, end - addr = remainder and the bytes moved plus remainder are the
\* length asked for; every chunk call asks for between 1 and MAX_CHUNK_SIZE
\* bytes that lie inside [addr0, addr0 + L), at the buffer offset that is
\* the number of bytes moved before it.
C17_LoopInvariant ==
    \A t \in Threads :
        /\ ((At(t, "rk_243") \/ At(t, "wk_272")) /\ xf[t].addr < xf[t].end) =>
               /\ xf[t].end - xf[t].addr = xf[t].remainder
               /\ xf[t].moved + xf[t].remainder = xf[t].size0
               /\ xf[t].addr = xf[t].addr0 + xf[t].moved
        /\ \A i \in DOMAIN xf[t].log :
               LET e == xf[t].log[i] IN
                   /\ 1 <= e.size /\ e.size <= MAX_CHUNK_SIZE
                   /\ xf[t].addr0 <= e.addr
                   /\ e.addr + e.size <= xf[t].addr0 + xf[t].size0
                   /\ e.off = SumGot(xf[t].log, i - 1)
                   /\ e.off = e.addr - xf[t].addr0

\* After a short read of one byte the second chunk of a read of
\* 2 * MAX_CHUNK_SIZE + 1 bytes begins one byte in.
C17_Witness ==
    /\ At(1, "rk_243") /\ xf[1].addr < xf[1].end
    /\ xf[1].size0 = 2 * MAX_CHUNK_SIZE + 1
    /\ Len(xf[1].log) = 2
    /\ xf[1].log[1].got = 1
    /\ xf[1].log[2].off = 1 /\ xf[1].log[2].size = MAX_CHUNK_SIZE
    /\ xf[1].remainder = MAX_CHUNK_SIZE

\* C14: when threads call get_kernel_task concurrently before the first
\* success, more than one of them calls task_for_pid, and a call that found
\* initialized = 1 can return KERN_SUCCESS with the MACH_PORT_NULL another
\* thread, still initialising, has just stored.  A call returns
\* KERN_SUCCESS with an invalid port only so: it took the cached path, or
\* the port it had verified was valid and was replaced before line 92.
C14_InvalidOnlyByRace ==
    \A t \in Threads :
        (gkt[t].done /\ gkt[t].ret = KERN_SUCCESS /\ ~MACH_PORT_VALID(gkt[t].out)) =>
            /\ task_initialized = 1
            /\ \/ gkt[t].cached
               \/ /\ gkt[t].acquired /= <<>>
                  /\ MACH_PORT_VALID(gkt[t].acquired[1])
                  /\ gkt[t].acquired[1] /= gkt[t].out

\* Thread 2 found initialized = 0, thread 1 then returned a port; thread 2
\* has reset kernel_task at line 72 and is about to call task_for_pid as
\* well, and a later call of thread 1 that found initialized = 1 has
\* returned KERN_SUCCESS with MACH_PORT_NULL.
C14_Witness ==
    /\ succeeded /\ MACH_PORT_VALID(firstPort)
    /\ At(2, "gkt_73") /\ ~gkt[2].cached /\ gkt[2].calls = <<>>
    /\ gkt[1].done /\ gkt[1].cached /\ gkt[1].calls = <<>>
    /\ gkt[1].ret = KERN_SUCCESS /\ gkt[1].wrote
    /\ gkt[1].out = MACH_PORT_NULL
    /\ kernel_task = MACH_PORT_NULL /\ task_initialized = 1

\* Both threads have called task_for_pid and neither has returned.
C14_WitnessBothAcquire ==
    \A t \in Threads :
        /\ ~gkt[t].done /\ ~gkt[t].cached
        /\ gkt[t].calls /= <<>> /\ gkt[t].calls[1] = "task_for_pid(0)"

\* C18 as claimed: every call to get_kernel_base returns.
C18_EveryCallReturns ==
    \A t \in Threads : ~At(t, "idle") ~> At(t, "idle")

\* ------------------------------------------------------------ find_bytes_kern: claims
\* The offsets from start at which the bytes searched for lie in the target's
\* memory between start and end.
InRange(r) ==
    {k \in 0..((r.end - r.start) - Len(r.bytes)) :
        \A i \in 1..Len(r.bytes) : kmem[r.start + k + i - 1] = r.bytes[i]}

\* A finished search that got its buffer and the port and whose read_kernel
\* transferred the whole range.
ReadInFull(t) ==
    /\ fbk[t].done /\ fbk[t].buf
    /\ xf[t].acquired
    /\ xf[t].result = fbk[t].end - fbk[t].start
    /\ \A i \in 0..(fbk[t].end - fbk[t].start - 1) : Transferred(xf[t].log, i)

\* A finished search for the bytes a write_kernel call has just stored in
\* full inside the range searched.
SearchesWritten(t) ==
    /\ fbk[t].after /= <<>>
    /\ fbk[t].bytes = fbk[t].after[1].data
    /\ fbk[t].start <= fbk[t].after[1].addr
    /\ fbk[t].after[1].addr + Len(fbk[t].bytes) <= fbk[t].end

\* C13 as claimed: after write_kernel stores P in full at A inside
\* [start, end), find_bytes_kern(start, end, P, |P|) returns exactly A; and
\* a search for bytes that occur nowhere in [start, end) returns 0.
C13_RoundTripExact ==
    \A t \in Threads :
        ReadInFull(t) =>
            /\ SearchesWritten(t) => fbk[t].ret = fbk[t].after[1].addr
            /\ InRange(fbk[t]) = {} => fbk[t].ret = 0

\* C13: after write_kernel stores P in full at A inside [start, end), a
\* find_bytes_kern(start, end, P, |P|) whose read_kernel transfers the whole
\* range returns the lowest address of the range at which P lies, which is
\* at most A and is A when P lies nowhere before A; and a search for bytes
\* that occur nowhere in [start, end) returns 0.
C13_RoundTripFirst ==
    \A t \in Threads :
        ReadInFull(t) =>
            /\ SearchesWritten(t) =>
                   /\ InRange(fbk[t]) /= {}
                   /\ fbk[t].ret = fbk[t].start + Least(InRange(fbk[t]))
                   /\ fbk[t].ret <= fbk[t].after[1].addr
                   /\ (\A k \in InRange(fbk[t]) :
                          fbk[t].start + k >= fbk[t].after[1].addr)
                        => fbk[t].ret = fbk[t].after[1].addr
            /\ InRange(fbk[t]) = {} => fbk[t].ret = 0

\* The byte 1 is written at address 2 when address 1 holds it already: the
\* search of [1, 3) for it returns 1.
C13_Witness ==
    /\ ReadInFull(1) /\ SearchesWritten(1)
    /\ fbk[1].bytes = <<1>>
    /\ fbk[1].after[1].addr = 2
    /\ fbk[1].start = 1 /\ fbk[1].end = 3
    /\ fbk[1].ret = 1

\* C19 as claimed: a non-zero address r returned by find_bytes_kern lies in
\* the range with r + length <= end, the target holds the bytes searched for
\* at r, and read_kernel transferred them; the search returns 0 when the
\* port cannot be acquired.
C19_MatchIsReal ==
    \A t \in Threads :
        fbk[t].done =>
            /\ fbk[t].ret /= 0 =>
                   /\ fbk[t].start <= fbk[t].ret
                   /\ fbk[t].ret + Len(fbk[t].bytes) <= fbk[t].end
                   /\ \A i \in 1..Len(fbk[t].bytes) :
                          /\ kmem[fbk[t].ret + i - 1] = fbk[t].bytes[i]
                          /\ Transferred(xf[t].log, fbk[t].ret - fbk[t].start + i - 1)
            /\ (fbk[t].buf /\ ~xf[t].acquired) => fbk[t].ret = 0

====
